---- MODULE Spec2Model ----
(***************************************************************************)
(* Biometric two-factor authentication (auth.py, biometric.py, hashing.py, *)
(* encryption.py, totp.py, main.py).                                        *)
(*                                                                         *)
(* Cryptographic primitives are modelled symbolically (a digest, a         *)
(* ciphertext and a MAC are terms over their inputs; two terms are equal    *)
(* exactly when their inputs are), random draws are choices from small     *)
(* sets, and the users.json file is the variable USER_DB.                  *)
(***************************************************************************)
EXTENDS Integers, Sequences, FiniteSets, TLC

VARIABLES
    USER_DB,    \* the users.json file: [exists, users]
    hashSeed,   \* the string-hash seed of the running interpreter
    clock,      \* Unix time in seconds
    pc,         \* "menu" | "otp_prompt" | "crashed"
    call,       \* locals and progress of the current/last authenticate_user call
    event,      \* the last operation and what it printed/returned
    written,    \* history: the record each user's enrollment saved
    procs,      \* register_user calls of concurrent processes (load/save split)
    lib         \* last direct call of a totp.py / encryption.py function and its result

vars == <<USER_DB, hashSeed, clock, pc, call, event, written, procs, lib>>

(***************************** bounds ***************************************)
MaxSecret == 2      \* pyotp.random_base32() draws from 1..MaxSecret
MaxHashSeed == 1    \* interpreter hash seeds 0..MaxHashSeed
MaxTicks == 2       \* the clock runs for MaxTicks ticks
MaxCodeStep == 2    \* the codes a user may type are those of steps 0..MaxCodeStep

Usernames == {"alice", "bob"}
Salts == {1, 2}         \* what os.urandom(16) draws the salt from
KeyDraws == {1}         \* what Fernet.generate_key() draws from
AnyKeyBytes == KeyDraws \cup {0}   \* the drawn key material and one that was not drawn
Ivs == {1}              \* the IV Fernet draws per encryption
Nonces == {1}           \* os.urandom(16) for the nonce
AnyNonces == Nonces \cup {0}   \* the drawn nonces and one that was not drawn
Secrets == 1..MaxSecret
HashSeeds == 0..MaxHashSeed

(************************* program constants ********************************)
Iterations == 100000        \* PBKDF2 iterations
Interval == 30              \* TOTP time step, seconds
CodeModulus == 1000000      \* 6-digit codes
ValidWindow == 0            \* pyotp's TOTP.verify default valid_window
HashModulus == 2^16         \* the generator's seed range (2**32 in the source, scaled down to fit 32-bit integers)
TickSeconds == Interval \div 2   \* the clock advances by half a time step
MaxClock == MaxTicks * TickSeconds

(***************************** biometric.py ********************************)
\* Python's str hash: a signed value that depends on the interpreter's
\* per-process hash seed as well as on the string.
UserOrd(username) == IF username = "alice" THEN 97 ELSE 98

PyStrHash(username, seed) == (UserOrd(username) * 1003) - (seed * 79 * 1003)

\* np.random.seed(hash(username) % 2**32); np.random.rand(1, 128): the vector is
\* a function of the seed given to the generator.
generate_mock_fingerprint(username, seed) ==
    [vec |-> PyStrHash(username, seed) % HashModulus]

(****************************** hashing.py *********************************)
\* hashlib.pbkdf2_hmac('sha256', data.tobytes(), salt, 100000)
pbkdf2_hmac(data_bytes, salt, iterations) ==
    [data |-> data_bytes, salt |-> salt, iter |-> iterations]

\* generate_hash(data, salt): `salt` is the given salt, or the fresh draw when
\* the caller passed None.
generate_hash(data, salt) == <<salt, pbkdf2_hmac(data.vec, salt, Iterations)>>

(***************************** encryption.py *******************************)
\* A Fernet key is 32 bytes: a signing half and an encryption half.
FernetKey(sign, enc) == [sign |-> sign, enc |-> enc]

generate_key(k) == FernetKey(k, k)

\* Fernet token: IV, AES-CBC ciphertext under the encryption half, HMAC under
\* the signing half over IV and ciphertext.
Cbc(enc, iv, pt) == [k |-> enc, iv |-> iv, pt |-> pt]

Hmac(sign, iv, ct) == [k |-> sign, iv |-> iv, ct |-> ct]

fernet_encrypt(key, iv, data) ==
    [iv |-> iv, ct |-> Cbc(key.enc, iv, data), mac |-> Hmac(key.sign, iv, Cbc(key.enc, iv, data))]

\* encrypt_data(data): key, nonce and IV are the fresh random draws.
encrypt_data(data, k, nonce, iv) ==
    [key |-> generate_key(k), nonce |-> nonce, encrypted_data |-> fernet_encrypt(generate_key(k), iv, data)]

NoDigest == pbkdf2_hmac(-1, 0, 0)

InvalidToken == [ok |-> FALSE, data |-> NoDigest]

\* What unpadding leaves of a block decrypted under the wrong key when the
\* padding happens to be well-formed.
Garbage == [ok |-> TRUE, data |-> pbkdf2_hmac(-2, 0, 0)]

\* Fernet.decrypt: the set of results the call can have.  The HMAC is checked
\* under the signing half; the ciphertext is then decrypted under the
\* encryption half and unpadded.
fernet_decrypt(key, token) ==
    IF token.mac # Hmac(key.sign, token.iv, token.ct)
    THEN {InvalidToken}
    ELSE IF token.ct.k = key.enc /\ token.ct.iv = token.iv
         THEN {[ok |-> TRUE, data |-> token.ct.pt]}
         ELSE {InvalidToken, Garbage}

\* decrypt_data(key, nonce, encrypted_data): the nonce is not used.
decrypt_data(key, nonce, encrypted_data) == fernet_decrypt(key, encrypted_data)

(******************************* totp.py ***********************************)
\* HOTP value of a counter under a secret, as a 6-digit code.
hotp(secret, counter) == (secret * 104729 + counter * 7919) % CodeModulus

timecode(for_time) == for_time \div Interval

totp_at(secret, for_time) == hotp(secret, timecode(for_time))

\* Variant: verification with a window of one step on either side.
totp_verify_window1(secret, otp, for_time) ==
    \E i \in {-1, 0, 1} :
        /\ timecode(for_time) + i >= 0
        /\ otp = hotp(secret, timecode(for_time) + i)

\* pyotp.TOTP(secret).verify(otp, for_time=now, valid_window=0)
totp_verify(secret, otp, for_time) ==
    \E i \in (0 - ValidWindow)..ValidWindow :
        /\ timecode(for_time) + i >= 0
        /\ otp = hotp(secret, timecode(for_time) + i)

generate_otp(secret) == totp_at(secret, clock)

verify_otp(secret, code) == totp_verify(secret, code, clock)

Malformed == -1

\* What can be typed at the OTP prompt.
OtpInputs == {hotp(s, c) : s \in Secrets, c \in 0..MaxCodeStep} \cup {Malformed}

(******************************** auth.py **********************************)
\* bytes.hex() / bytes.fromhex(): a hex string carries the bytes it encodes;
\* a string that is not hexadecimal makes fromhex raise ValueError.
hex(bytes) == [valid |-> TRUE, bytes |-> bytes]

CanFromHex(s) == s.valid

fromhex(s) == s.bytes

EmptyUsers == [u \in {} |-> 0]

load_users == IF USER_DB.exists THEN USER_DB.users ELSE EmptyUsers

save_users(users) == USER_DB' = [exists |-> TRUE, users |-> users]

\* Variant: the existence check is missing.
user_exists_unchecked(username, users) == FALSE

\* Variant: the comparison of the digests is missing.
biometric_mismatch_skipped(new_hash, decrypted_hash) == FALSE

\* auth.py 83 / 126: `username in users`
user_exists(username, users) == username \in DOMAIN users

\* auth.py 146: `new_hash != decrypted_hash`
biometric_mismatch(new_hash, decrypted_hash) == new_hash # decrypted_hash

RecordFields == {"salt", "encrypted_hash", "key", "nonce", "otp_secret"}

\* The record register_user builds (auth.py 87-104) from its random draws.
NewRecord(username, seed, salt, k, nonce, iv, otp_secret) ==
    LET fingerprint == generate_mock_fingerprint(username, seed)
        h == generate_hash(fingerprint, salt)
        e == encrypt_data(h[2], k, nonce, iv)
    IN  [salt |-> hex(h[1]),
         encrypted_hash |-> hex(e.encrypted_data),
         key |-> hex(e.key),
         nonce |-> hex(e.nonce),
         otp_secret |-> otp_secret]

Put(users, username, rec) ==
    [u \in DOMAIN users \cup {username} |-> IF u = username THEN rec ELSE users[u]]

NoCall ==
    [user |-> "", trace |-> <<>>, captured |-> FALSE, decrypted |-> InvalidToken,
     new_hash |-> NoDigest, otp_secret |-> 0, requests |-> 0, otp |-> Malformed,
     error |-> "none", outcome |-> "none"]

Event(op, user, outcome, users) ==
    [op |-> op, user |-> user, outcome |-> outcome, users |-> users, secret |-> 0,
     code |-> Malformed]

register_user(username) ==
    /\ pc = "menu"
    /\ LET users == load_users
       IN  IF user_exists(username, users)
           THEN /\ event' = Event("enroll", username, "UserAlreadyExists", {})
                /\ UNCHANGED <<USER_DB, written>>
           ELSE \E salt \in Salts, k \in KeyDraws, nonce \in Nonces, iv \in Ivs, otp_secret \in Secrets :
                  LET rec == NewRecord(username, hashSeed, salt, k, nonce, iv, otp_secret)
                  IN  /\ save_users(Put(users, username, rec))
                      /\ written' = Put(written, username, rec)
                      /\ event' = [Event("enroll", username, "Enrolled", {}) EXCEPT !.secret = otp_secret]
    /\ call' = NoCall
    /\ UNCHANGED <<hashSeed, clock, pc, procs, lib>>

\* authenticate_user up to the OTP prompt (auth.py 125-151).
authenticate_user(username) ==
    /\ pc = "menu"
    /\ LET users == load_users
           c0 == [NoCall EXCEPT !.user = username, !.trace = <<"Start", "UserLookup">>]
       IN  IF ~ user_exists(username, users)
           THEN /\ call' = [c0 EXCEPT !.outcome = "UserNotFound"]
                /\ pc' = "menu"
           ELSE LET user_data == users[username]
                IN  IF ~ (CanFromHex(user_data.salt) /\ CanFromHex(user_data.encrypted_hash)
                          /\ CanFromHex(user_data.key) /\ CanFromHex(user_data.nonce))
                    THEN /\ call' = [c0 EXCEPT !.error = "ValueError",
                                                !.outcome = "UnhandledException"]
                         /\ pc' = "crashed"
                    ELSE LET salt == fromhex(user_data.salt)
                             encrypted_hash == fromhex(user_data.encrypted_hash)
                             key == fromhex(user_data.key)
                             nonce == fromhex(user_data.nonce)
                             new_fingerprint == generate_mock_fingerprint(username, hashSeed)
                             new_hash == generate_hash(new_fingerprint, salt)[2]
                             c1 == [c0 EXCEPT !.captured = TRUE, !.new_hash = new_hash,
                                              !.otp_secret = user_data.otp_secret,
                                              !.trace = Append(c0.trace, "BiometricCheck")]
                         IN  \E decrypted \in decrypt_data(key, nonce, encrypted_hash) :
                               IF ~ decrypted.ok
                               THEN /\ call' = [c1 EXCEPT !.error = "InvalidToken",
                                                          !.outcome = "UnhandledException"]
                                    /\ pc' = "crashed"
                               ELSE IF biometric_mismatch(new_hash, decrypted.data)
                               THEN /\ call' = [c1 EXCEPT !.decrypted = decrypted,
                                                          !.outcome = "BiometricCheckFailed"]
                                    /\ pc' = "menu"
                               ELSE /\ call' = [c1 EXCEPT !.decrypted = decrypted,
                                                          !.trace = Append(c1.trace, "OtpCheck"),
                                                          !.requests = c1.requests + 1,
                                                          !.outcome = "pending"]
                                    /\ pc' = "otp_prompt"
    /\ event' = Event("verify", username, call'.outcome, {})
    /\ UNCHANGED <<USER_DB, hashSeed, clock, written, procs, lib>>

\* Variant: a successful login re-hashes the fingerprint under a fresh salt
\* and saves the record again.
authenticate_user_otp_rehash(otp) ==
    /\ pc = "otp_prompt"
    /\ IF ~ totp_verify(call.otp_secret, otp, clock)
       THEN /\ call' = [call EXCEPT !.otp = otp, !.outcome = "OtpCheckFailed"]
            /\ UNCHANGED USER_DB
       ELSE /\ call' = [call EXCEPT !.otp = otp, !.outcome = "Success",
                                    !.trace = Append(call.trace, "Success")]
            /\ \E salt \in Salts, k \in KeyDraws, nonce \in Nonces, iv \in Ivs :
                 save_users(Put(load_users, call.user,
                                NewRecord(call.user, hashSeed, salt, k, nonce, iv, call.otp_secret)))
    /\ pc' = "menu"
    /\ event' = Event("verify", call.user, call'.outcome, {})
    /\ UNCHANGED <<hashSeed, clock, written, procs, lib>>

\* authenticate_user from the answer to the OTP prompt on (auth.py 151-156).
authenticate_user_otp(otp) ==
    /\ pc = "otp_prompt"
    /\ IF ~ totp_verify(call.otp_secret, otp, clock)
       THEN call' = [call EXCEPT !.otp = otp, !.outcome = "OtpCheckFailed"]
       ELSE call' = [call EXCEPT !.otp = otp, !.outcome = "Success",
                                 !.trace = Append(call.trace, "Success")]
    /\ pc' = "menu"
    /\ event' = Event("verify", call.user, call'.outcome, {})
    /\ UNCHANGED <<USER_DB, hashSeed, clock, written, procs, lib>>

view_all_users ==
    /\ pc = "menu"
    /\ event' = Event("list", "", IF DOMAIN load_users = {} THEN "NoUsers" ELSE "Listed", DOMAIN load_users)
    /\ call' = NoCall
    /\ UNCHANGED <<USER_DB, hashSeed, clock, pc, written, procs, lib>>

Confirmations == {"yes", "YES", "no"}

\* str.lower()
lower(s) == IF s = "YES" THEN "yes" ELSE s

\* Variant: the confirmed deletion reports success without saving the empty
\* dictionary.
delete_all_users_unsaved(confirmation) ==
    /\ pc = "menu"
    /\ IF lower(confirmation) = "yes"
       THEN /\ event' = Event("wipe", "", "Wiped", DOMAIN load_users)
            /\ UNCHANGED <<USER_DB, written>>
       ELSE /\ event' = Event("wipe", "", "Canceled", {})
            /\ UNCHANGED <<USER_DB, written>>
    /\ call' = NoCall
    /\ UNCHANGED <<hashSeed, clock, pc, procs, lib>>

delete_all_users(confirmation) ==
    /\ pc = "menu"
    /\ IF lower(confirmation) = "yes"
       THEN /\ save_users(EmptyUsers)
            /\ written' = EmptyUsers
            /\ event' = Event("wipe", "", "Wiped", DOMAIN load_users)
       ELSE /\ event' = Event("wipe", "", "Canceled", {})
            /\ UNCHANGED <<USER_DB, written>>
    /\ call' = NoCall
    /\ UNCHANGED <<hashSeed, clock, pc, procs, lib>>

(******************************** main.py **********************************)
\* One pass of the menu loop.
main ==
    \/ \E username \in Usernames : register_user(username)
    \/ \E username \in Usernames : authenticate_user(username)
    \/ \E otp \in OtpInputs : authenticate_user_otp(otp)
    \/ view_all_users
    \/ \E confirmation \in Confirmations : delete_all_users(confirmation)

\* The program exits (option 5, or a traceback) and is started again: the new
\* interpreter has its own string-hash seed; users.json stays.
Restart ==
    /\ pc \in {"menu", "crashed"}
    /\ \E seed \in HashSeeds : hashSeed' = seed
    /\ pc' = "menu"
    /\ call' = NoCall
    /\ event' = Event("restart", "", "none", {})
    /\ UNCHANGED <<USER_DB, clock, written, procs, lib>>

\* Time passes.
Tick ==
    /\ clock + TickSeconds <= MaxClock
    /\ clock' = clock + TickSeconds
    /\ UNCHANGED <<USER_DB, hashSeed, pc, call, event, written, procs, lib>>

NoProcs == [p \in {} |-> 0]

NoLib ==
    [op |-> "none", data |-> NoDigest, sealed |-> <<>>, args |-> <<>>, out |-> InvalidToken]

Init ==
    /\ USER_DB = [exists |-> FALSE, users |-> EmptyUsers]
    /\ hashSeed \in HashSeeds
    /\ clock = 0
    /\ pc = "menu"
    /\ call = NoCall
    /\ event = Event("start", "", "none", {})
    /\ written = EmptyUsers
    /\ procs = NoProcs
    /\ lib = NoLib

Next == main \/ Restart \/ Tick

Spec == Init /\ [][Next]_vars

(************************ the file, edited from outside *********************)
\* The values an edit of users.json can put in place of a record's field.
OtherSalts(rec) == {hex(s) : s \in Salts} \ {rec.salt}

OtherKeys(rec) ==
    {hex(FernetKey(fromhex(rec.key).sign, e)) : e \in AnyKeyBytes}
    \cup {hex(generate_key(k)) : k \in AnyKeyBytes}

OtherNonces(rec) == {hex(n) : n \in AnyNonces}

\* A ciphertext with a flipped bit: the token no longer carries the MAC of its
\* contents.
FlipBit(token) == [token EXCEPT !.ct.pt = NoDigest]

\* A hex string with a character that is no hex digit.
Corrupt(s) == [s EXCEPT !.valid = FALSE]

Tampered(rec) ==
    {[rec EXCEPT !.salt = v] : v \in OtherSalts(rec)}
    \cup {[rec EXCEPT !.key = v] : v \in OtherKeys(rec)}
    \cup {[rec EXCEPT !.nonce = v] : v \in OtherNonces(rec)}
    \cup {[rec EXCEPT !.encrypted_hash = hex(FlipBit(fromhex(rec.encrypted_hash)))],
          [rec EXCEPT !.encrypted_hash = Corrupt(rec.encrypted_hash)]}

\* Somebody edits one record of users.json (at most one edited record at a time).
Tamper ==
    /\ USER_DB.exists
    /\ USER_DB.users = written
    /\ \E username \in DOMAIN USER_DB.users :
         \E rec \in Tampered(USER_DB.users[username]) \ {USER_DB.users[username]} :
            USER_DB' = [USER_DB EXCEPT !.users[username] = rec]
    /\ UNCHANGED <<hashSeed, clock, pc, call, event, written, procs, lib>>

NextTamper == Next \/ Tamper

SpecTamper == Init /\ [][NextTamper]_vars

(************** totp.py and encryption.py called directly *******************)
\* generate_otp(secret) called at the current time.
call_generate_otp(secret) ==
    /\ pc = "menu"
    /\ event' = [Event("generate_otp", "", "code", {}) EXCEPT !.secret = secret,
                                                             !.code = generate_otp(secret)]
    /\ call' = NoCall
    /\ UNCHANGED <<USER_DB, hashSeed, clock, pc, written, procs, lib>>

\* verify_otp(secret, code) called at the current time.
call_verify_otp(secret, code) ==
    /\ pc = "menu"
    /\ event' = [Event("verify_otp", "", IF verify_otp(secret, code) THEN "True" ELSE "False", {})
                    EXCEPT !.secret = secret, !.code = code]
    /\ call' = NoCall
    /\ UNCHANGED <<USER_DB, hashSeed, clock, pc, written, procs, lib>>

\* The digests generate_hash yields for the fingerprints of the users.
Digests ==
    {generate_hash(generate_mock_fingerprint(u, seed), salt)[2] :
        u \in Usernames, seed \in HashSeeds, salt \in Salts}

Triple(e) == <<e.key, e.nonce, e.encrypted_data>>

LibEncrypt(data) ==
    /\ \E k \in KeyDraws, nonce \in Nonces, iv \in Ivs :
         lib' = [NoLib EXCEPT !.op = "encrypt_data", !.data = data,
                              !.sealed = Triple(encrypt_data(data, k, nonce, iv))]
    /\ UNCHANGED <<USER_DB, hashSeed, clock, pc, call, event, written, procs>>

\* decrypt_data on the sealed triple, or on one that differs from it in the
\* key, in the nonce or in the ciphertext.
LibDecrypt ==
    /\ lib.op \in {"encrypt_data", "decrypt_data"}
    /\ \E key \in {lib.sealed[1]} \cup {generate_key(k) : k \in AnyKeyBytes},
          nonce \in AnyNonces,
          token \in {lib.sealed[3], FlipBit(lib.sealed[3])} :
         \E out \in decrypt_data(key, nonce, token) :
            lib' = [lib EXCEPT !.op = "decrypt_data", !.args = <<key, nonce, token>>, !.out = out]
    /\ UNCHANGED <<USER_DB, hashSeed, clock, pc, call, event, written, procs>>

NextLib ==
    \/ \E data \in Digests : LibEncrypt(data)
    \/ LibDecrypt

SpecLib == Init /\ [][NextLib]_vars

NextOtp ==
    \/ \E username \in Usernames : register_user(username)
    \/ \E username \in Usernames : authenticate_user(username)
    \/ \E otp \in OtpInputs : authenticate_user_otp(otp)
    \/ \E secret \in Secrets : call_generate_otp(secret)
    \/ \E secret \in Secrets, code \in OtpInputs : call_verify_otp(secret, code)
    \/ Tick

SpecOtp == Init /\ [][NextOtp]_vars

(*********** register_user in two processes on the same users.json **********)
Procs == {1, 2}

IdleProc == [pc |-> "idle", users |-> EmptyUsers, username |-> "", outcome |-> "none"]

\* auth.py 82-85: load, and the existence check on what was loaded.
register_user_load(p, username) ==
    /\ procs[p].pc = "idle"
    /\ LET users == load_users
       IN  IF user_exists(username, users)
           THEN procs' = [procs EXCEPT ![p] = [IdleProc EXCEPT !.username = username,
                                                                 !.outcome = "UserAlreadyExists"]]
           ELSE procs' = [procs EXCEPT ![p] = [pc |-> "loaded", users |-> users,
                                                username |-> username, outcome |-> "none"]]
    /\ UNCHANGED <<USER_DB, hashSeed, clock, pc, call, event, written, lib>>

\* auth.py 87-105: the record is added to the dictionary that was loaded, and
\* that dictionary is saved.
register_user_save(p) ==
    /\ procs[p].pc = "loaded"
    /\ \E salt \in Salts, k \in KeyDraws, nonce \in Nonces, iv \in Ivs, otp_secret \in Secrets :
         LET rec == NewRecord(procs[p].username, hashSeed, salt, k, nonce, iv, otp_secret)
         IN  /\ save_users(Put(procs[p].users, procs[p].username, rec))
             /\ written' = Put(written, procs[p].username, rec)
    /\ procs' = [procs EXCEPT ![p] = [IdleProc EXCEPT !.username = procs[p].username,
                                                        !.outcome = "Enrolled"]]
    /\ UNCHANGED <<hashSeed, clock, pc, call, event, lib>>

\* delete_all_users, confirmed, in process p.  The enrollments finished
\* before it no longer count.
delete_all_users_proc(p) ==
    /\ procs[p].pc = "idle"
    /\ save_users(EmptyUsers)
    /\ written' = EmptyUsers
    /\ procs' = [q \in Procs |-> IF procs[q].pc = "idle" THEN IdleProc ELSE procs[q]]
    /\ UNCHANGED <<hashSeed, clock, pc, call, event, lib>>

InitConc ==
    /\ USER_DB = [exists |-> FALSE, users |-> EmptyUsers]
    /\ hashSeed \in HashSeeds
    /\ clock = 0
    /\ pc = "menu"
    /\ call = NoCall
    /\ event = Event("start", "", "none", {})
    /\ written = EmptyUsers
    /\ procs = [p \in Procs |-> IdleProc]
    /\ lib = NoLib

NextConc ==
    \/ \E p \in Procs, username \in Usernames : register_user_load(p, username)
    \/ \E p \in Procs : register_user_save(p)
    \/ \E p \in Procs : delete_all_users_proc(p)

SpecConc == InitConc /\ [][NextConc]_vars

(******************************** claims ***********************************)
BiometricPassed == call.decrypted.ok /\ call.new_hash = call.decrypted.data

\* C1: within one authenticate_user call an OTP code is requested only after
\* the biometric check of that call has passed; when the fresh digest differs
\* from the decrypted stored digest the call ends with BiometricCheckFailed and
\* no OTP code was requested.
C1_OtpOnlyAfterBiometricPass ==
    /\ call.requests > 0 => BiometricPassed
    /\ "OtpCheck" \in {call.trace[i] : i \in DOMAIN call.trace} => BiometricPassed
    /\ (call.captured /\ call.decrypted.ok /\ call.new_hash # call.decrypted.data)
          => (call.outcome = "BiometricCheckFailed" /\ call.requests = 0 /\ pc # "otp_prompt")

C1_Witness ==
    /\ call.captured /\ call.decrypted.ok /\ call.new_hash # call.decrypted.data
    /\ call.outcome = "BiometricCheckFailed"
    /\ call.requests = 0

\* C2: register_user for a username already in the store reports
\* UserAlreadyExists, leaves users.json as it was (every record, that user's and
\* the others') and produces no OTP secret.
C2_SecondEnrollRejected ==
    [][(event'.op = "enroll" /\ clock' = clock /\ event'.user \in DOMAIN load_users)
          => (event'.outcome = "UserAlreadyExists" /\ USER_DB' = USER_DB /\ event'.secret = 0)]_vars

C2_Witness ==
    /\ event.op = "enroll"
    /\ event.outcome = "UserAlreadyExists"
    /\ DOMAIN load_users = Usernames

Dist(a, b) == IF a >= b THEN a - b ELSE b - a

\* What the skew window of one step would make of a code of step `step`
\* checked at time step T.
SkewOfOne(accepted, step, T) ==
    /\ Dist(step, T) <= 1 => accepted
    /\ Dist(step, T) >= 2 => ~ accepted

\* C3 as stated: verification at step T accepts the codes of steps T-1, T and
\* T+1 and rejects those of steps at distance 2 or more, in verify_otp and in
\* the OTP check of authenticate_user.
C3_SkewWindowOfOneStep ==
    [][/\ (event'.op = "verify_otp" /\ clock' = clock)
            => \A step \in 0..MaxCodeStep :
                  event'.code = hotp(event'.secret, step)
                     => SkewOfOne(event'.outcome = "True", step, timecode(clock))
       /\ (pc = "otp_prompt" /\ pc' = "menu")
            => \A step \in 0..MaxCodeStep :
                  call'.otp = hotp(call.otp_secret, step)
                     => SkewOfOne(call'.outcome = "Success", step, timecode(clock))]_vars

\* C3 amended: verification at step T accepts a code exactly when it is the
\* code of step T itself (window 0); the codes of steps T-1 and T+1 are
\* rejected like those of any other step.
C3_ExactStepOnly ==
    [][/\ (event'.op = "verify_otp" /\ clock' = clock)
            => (event'.outcome = "True" <=> event'.code = hotp(event'.secret, timecode(clock)))
       /\ (pc = "otp_prompt" /\ pc' = "menu")
            => /\ call'.outcome \in {"Success", "OtpCheckFailed"}
               /\ call'.outcome = "Success" <=> call'.otp = hotp(call.otp_secret, timecode(clock))]_vars

C3_Witness ==
    /\ pc = "menu"
    /\ call.outcome = "OtpCheckFailed"
    /\ call.otp = hotp(call.otp_secret, timecode(clock) + 1)

\* C4: when the stored ciphertext, key or nonce cannot be decrypted,
\* authenticate_user ends in BiometricCheckFailed like a mismatch (no other
\* error, no unhandled exception) and requests no OTP code.
C4_DecryptionFailureIsBiometricFailure ==
    call.error # "none" => (call.outcome = "BiometricCheckFailed" /\ call.requests = 0)

\* C5: the capture for a username is the same at enrollment and at every later
\* verification, in the same run or a later one, so authenticate_user on an
\* unmodified record always passes the biometric check.
C5_RecaptureMatchesEnrollment ==
    (call.captured /\ call.user \in DOMAIN load_users /\ load_users[call.user] = written[call.user])
        => (BiometricPassed /\ call.outcome \in {"pending", "Success", "OtpCheckFailed"})

\* C6: decrypt_data returns the sealed digest for the triple encrypt_data
\* returned, and fails for every triple that differs from it in the key, in the
\* nonce or in the ciphertext.
C6_OpenInvertsSealAndDetectsTamper ==
    lib.op = "decrypt_data"
        => IF lib.args = lib.sealed
           THEN lib.out = [ok |-> TRUE, data |-> lib.data]
           ELSE lib.out = InvalidToken

StageOrder == <<"Start", "UserLookup", "BiometricCheck", "OtpCheck", "Success">>

IsPrefix(t, u) == Len(t) <= Len(u) /\ \A i \in DOMAIN t : t[i] = u[i]

\* C7: every authenticate_user call passes through Start, UserLookup,
\* BiometricCheck, OtpCheck, Success in that order and ends in Success or in a
\* rejection (UserNotFound, BiometricCheckFailed, OtpCheckFailed); an unknown
\* user is rejected before any capture or OTP request; at most one OTP code is
\* requested; Success needs the user, the biometric check and the OTP check.
C7_VerifyStateMachine ==
    call.user # "" =>
        /\ IsPrefix(call.trace, StageOrder)
        /\ call.outcome \in {"pending", "Success", "UserNotFound", "BiometricCheckFailed", "OtpCheckFailed"}
        /\ call.outcome = "pending" <=> pc = "otp_prompt"
        /\ call.outcome = "UserNotFound" => (~ call.captured /\ call.requests = 0)
        /\ call.requests <= 1
        /\ call.outcome = "Success" =>
              (call.trace = StageOrder /\ BiometricPassed /\ call.requests = 1)

\* C8: every record in the store has the five fields and is the record its
\* enrollment wrote; only the wipe removes records; no sequence of
\* register_user, authenticate_user and view_all_users changes a record.
C8_RecordsReadOnly ==
    /\ DOMAIN load_users = DOMAIN written
    /\ \A u \in DOMAIN load_users :
          /\ DOMAIN load_users[u] = RecordFields
          /\ load_users[u] = written[u]
    /\ ~ USER_DB.exists => DOMAIN USER_DB.users = {}

C8_Witness ==
    /\ call.outcome = "Success"
    /\ DOMAIN load_users = Usernames
    /\ load_users[call.user] = written[call.user]

\* C9: after a confirmed delete_all_users the store is empty whatever it held:
\* view_all_users lists nobody, authenticate_user ends in UserNotFound and
\* register_user of any username succeeds.
C9_AfterWipe ==
    [][(event.op = "wipe" /\ event.outcome = "Wiped" /\ clock' = clock)
          => /\ DOMAIN load_users = {}
             /\ event'.op = "list" => (event'.users = {} /\ event'.outcome = "NoUsers")
             /\ event'.op = "verify" => call'.outcome = "UserNotFound"
             /\ event'.op = "enroll" => (event'.outcome = "Enrolled" /\ event'.user \in DOMAIN USER_DB'.users)]_vars

C9_Witness ==
    /\ event.op = "wipe"
    /\ event.outcome = "Wiped"
    /\ event.users = Usernames
    /\ DOMAIN load_users = {}

\* C10: register_user calls (and a wipe) of two processes that interleave
\* between load_users and save_users lose no update and create no duplicate:
\* the store holds exactly the records of the enrollments that succeeded since
\* the last wipe, and two calls for the same username do not both succeed.
C10_NoLostUpdate ==
    /\ load_users = written
    /\ \A p \in DOMAIN procs :
          procs[p].outcome = "Enrolled" => procs[p].username \in DOMAIN load_users
    /\ \A p, q \in DOMAIN procs :
          (p # q /\ procs[p].outcome = "Enrolled" /\ procs[q].outcome = "Enrolled")
              => procs[p].username # procs[q].username

====
